---- MODULE Spec2Model ----
(***************************************************************************)
(* A model of aws-orchestrate: the LambdaSequence class                    *)
(* (src/src/LambdaSequence.ts) and the handler wrapper (src/src/wrapper.ts)*)
(*                                                                         *)
(* A LambdaSequence object is the record [steps, responses].  Methods and  *)
(* getters are operators from the object (and the arguments) to a record   *)
(* holding the object after the call ("seq"), what the call returned and   *)
(* what it threw ("err").  The getter activeFn writes to the object, so    *)
(* every operator that reads it threads the object through.                *)
(***************************************************************************)
EXTENDS Integers, Sequences, FiniteSets, TLC

VARIABLES
    seq,    \* a LambdaSequence object that a program builds and drives
    last    \* the last call made on seq: its name, arguments and outcome

\* one process that runs a wrapped handler, invocation after invocation
VARIABLES
    options,        \* the wrapper's options: is a sequenceTracker set
    newSequence,    \* the module-level newSequence of registerSequence
    inflight,       \* the envelope of the latest successful sequence invoke
    invocations,    \* the number of invocations this process has started
    pc,             \* the region of the wrapper the current invocation is at
    event,          \* the event of the current invocation
    sequence,       \* the sequence unboxed from the event
    handler,        \* what the user handler did: result, status code, error
    log,            \* the events of the current invocation, in order
    outcome         \* what the wrapper returned or threw

seqVars == <<seq, last>>
wrapperVars == <<options, newSequence, inflight, invocations, pc,
                 event, sequence, handler, log, outcome>>
vars == <<seq, last, options, newSequence, inflight, invocations,
          pc, event, sequence, handler, log, outcome>>

\* ------------------------------------------------------------------ bounds
MaxSteps == 3
MaxInvocations == 2

\* ------------------------------------------------------------- value sets
ARNs == {"fnA", "fnB"}
\* "empty" is the object {}, the default of next()'s parameter
Vals == {"empty", "v1"}
Absent == "absent"
\* the params of a step and the body of a request are objects with two keys
\* of interest.  The key "p" is "none" (not set), "static" (a literal set at
\* build time), "req" (the value of an incoming request), "dyn" (a dynamic
\* reference to the property p of the response of fnA), "v1" or "undefined"
\* (what a dynamic reference resolved to).  The key "_sequence" is set or not.
ParamChoices == {"static"}
Params(p) == [p |-> p, _sequence |-> FALSE]
\* what an incoming bare request says about the key "p": nothing, or a value
Requests == {"none", "req"}
\* the predicate of a conditional step ("none": the step is unconditional)
Predicates == {"alwaysFalse"}
NoErr == "none"

EmptyResponses == [a \in ARNs |-> Absent]
\* new LambdaSequence(): _steps = [], _responses = {}
EmptySequence == [steps |-> <<>>, responses |-> EmptyResponses]
\* notASequence(): a new object whose _steps is []
notASequence == EmptySequence

\* a step as add() and onCondition() push it; no onError is set on it
StepOf(arn, p, cond) ==
    [arn |-> arn, params |-> Params(p), type |-> "task", status |-> "assigned",
     onCondition |-> cond, onError |-> "none"]

\* ------------------------------------------------------- LambdaSequence
\* the indices of the steps of a given status, and the first of them (0: none)
WithStatus(steps, st) == {i \in 1..Len(steps) : steps[i].status = st}
FirstWithStatus(steps, st) ==
    IF WithStatus(steps, st) = {} THEN 0
    ELSE CHOOSE i \in WithStatus(steps, st) : \A j \in WithStatus(steps, st) : i <= j

addResetting(s, arn, params) ==
    [steps |-> Append(s.steps, StepOf(arn, params, "none")),
     responses |-> EmptyResponses]

add(s, arn, params) ==
    [s EXCEPT !.steps = Append(@, StepOf(arn, params, "none"))]

onCondition(s, fn, arn, params) ==
    [s EXCEPT !.steps = Append(@, StepOf(arn, params, fn))]

\* what onError() is given: an [arn, params] pair to forward to, or a callback
ErrorHandlers == {"forward", "callback"}
\* onError(...args): the body is a bare return
onError(s, arnOrHandler) == s

isSequence(s) == Len(s.steps) > 0
remaining(s) == SelectSeq(s.steps, LAMBDA x : x.status = "assigned")
completed(s) == SelectSeq(s.steps, LAMBDA x : x.status = "completed")
nextFnLazy(s) == IF Len(remaining(s)) > 1 THEN 1 ELSE 0

nextFn(s) == IF Len(remaining(s)) > 0 THEN 1 ELSE 0
isDoneAlways(s) == TRUE

isDone(s) == nextFn(s) = 0

\* the getter activeFn: idx is the index of the step it returns (0: undefined)
activeFnBroken(s) ==
    IF Len(s.steps) = 0 THEN [seq |-> s, idx |-> 0, err |-> NoErr]
    ELSE IF FirstWithStatus(s.steps, "assigned") = 0
         THEN IF WithStatus(s.steps, "active") = {}
              THEN [seq |-> s, idx |-> 0, err |-> "Error"]
              ELSE [seq |-> s, idx |-> FirstWithStatus(s.steps, "active"),
                    err |-> NoErr]
         ELSE LET i == FirstWithStatus(s.steps, "assigned")
                  t == [s EXCEPT !.steps[i].status = "active"]
              IN [seq |-> t, idx |-> i, err |-> NoErr]

activeFnLast(s) ==
    IF Len(s.steps) = 0 THEN [seq |-> s, idx |-> 0, err |-> NoErr]
    ELSE IF WithStatus(s.steps, "active") = {}
         THEN IF WithStatus(s.steps, "assigned") = {}
              THEN [seq |-> s, idx |-> 0, err |-> "Error"]
              ELSE LET i == CHOOSE k \in WithStatus(s.steps, "assigned") :
                               \A j \in WithStatus(s.steps, "assigned") : j <= k
                       t == [s EXCEPT !.steps[i].status = "active"]
                   IN [seq |-> t, idx |-> i, err |-> NoErr]
         ELSE [seq |-> s, idx |-> FirstWithStatus(s.steps, "active"), err |-> NoErr]

activeFnRestless(s) ==
    IF Len(s.steps) = 0 THEN [seq |-> s, idx |-> 0, err |-> NoErr]
    ELSE IF FirstWithStatus(s.steps, "assigned") = 0
         THEN IF WithStatus(s.steps, "active") = {}
              THEN [seq |-> s, idx |-> 0, err |-> "Error"]
              ELSE [seq |-> s, idx |-> FirstWithStatus(s.steps, "active"),
                    err |-> NoErr]
         ELSE LET i == FirstWithStatus(s.steps, "assigned")
                  t == [s EXCEPT !.steps =
                          [j \in 1..Len(s.steps) |->
                             IF j = i THEN [s.steps[j] EXCEPT !.status = "active"]
                             ELSE IF s.steps[j].status = "active"
                             THEN [s.steps[j] EXCEPT !.status = "completed"]
                             ELSE s.steps[j]]]
              IN [seq |-> t, idx |-> i, err |-> NoErr]

activeFnEager(s) ==
    IF Len(s.steps) = 0 THEN [seq |-> s, idx |-> 0, err |-> NoErr]
    ELSE IF FirstWithStatus(s.steps, "assigned") = 0
         THEN IF WithStatus(s.steps, "active") = {}
              THEN [seq |-> s, idx |-> 0, err |-> "Error"]
              ELSE [seq |-> s, idx |-> FirstWithStatus(s.steps, "active"),
                    err |-> NoErr]
         ELSE LET i == FirstWithStatus(s.steps, "assigned")
                  t == [s EXCEPT !.steps[i].status = "active"]
              IN [seq |-> t, idx |-> FirstWithStatus(t.steps, "active"),
                  err |-> NoErr]

activeFn(s) ==
    IF Len(s.steps) = 0 THEN [seq |-> s, idx |-> 0, err |-> NoErr]
    ELSE IF WithStatus(s.steps, "active") = {}
         THEN IF FirstWithStatus(s.steps, "assigned") = 0
              THEN [seq |-> s, idx |-> 0, err |-> "Error"]
              ELSE LET i == FirstWithStatus(s.steps, "assigned")
                       t == [s EXCEPT !.steps[i].status = "active"]
                   IN [seq |-> t, idx |-> FirstWithStatus(t.steps, "active"),
                       err |-> NoErr]
         ELSE [seq |-> s, idx |-> FirstWithStatus(s.steps, "active"), err |-> NoErr]

finishStepRequeue(s, results) ==
    LET a == activeFn(s) IN
    IF a.err # NoErr THEN [seq |-> s, err |-> a.err]
    ELSE IF a.idx = 0 THEN [seq |-> s, err |-> "TypeError"]
    ELSE [seq |-> [a.seq EXCEPT !.responses[a.seq.steps[a.idx].arn] = results,
                                !.steps[a.idx].status = "assigned"],
          err |-> NoErr]

\* finishStep(results): two reads of activeFn, the first may promote a step
finishStep(s, results) ==
    LET a == activeFn(s) IN
    IF a.err # NoErr THEN [seq |-> s, err |-> a.err]
    ELSE IF a.idx = 0 THEN [seq |-> s, err |-> "TypeError"]
    ELSE LET t == [a.seq EXCEPT !.responses[a.seq.steps[a.idx].arn] = results]
             b == activeFn(t)
         IN [seq |-> [b.seq EXCEPT !.steps[b.idx].status = "completed"],
             err |-> NoErr]

\* get(this._responses, lookup, undefined) for the path fnA.p: the response
\* "v1" has the property p, the response {} and a missing response do not
Lookup(responses) == IF responses["fnA"] = "v1" THEN "v1" ELSE "undefined"

\* resolveRequestProperties(fn): the params of step i with dynamic references
\* looked up in the responses map; a lookup that misses yields undefined and
\* does not throw (typeof value === undefined is never true)
resolveRequestProperties(s, i) ==
    [s.steps[i].params EXCEPT
        !.p = IF @ = "dyn" THEN Lookup(s.responses) ELSE @]

\* toObject(): reads activeFn when the object has steps
toObject(s) ==
    IF ~isSequence(s)
    THEN [seq |-> s, err |-> NoErr,
          obj |-> [isSequence |-> FALSE, totalSteps |-> 0, completedSteps |-> 0,
                   activeFn |-> Absent, completed |-> <<>>, remaining |-> <<>>,
                   steps |-> <<>>, responses |-> EmptyResponses]]
    ELSE LET a == activeFn(s) IN
         IF a.err # NoErr
         THEN [seq |-> s, err |-> a.err,
               obj |-> [isSequence |-> TRUE, totalSteps |-> Len(s.steps),
                        completedSteps |-> Len(completed(s)),
                        activeFn |-> Absent, completed |-> <<>>,
                        remaining |-> <<>>, steps |-> <<>>,
                        responses |-> EmptyResponses]]
         ELSE [seq |-> a.seq, err |-> NoErr,
               obj |-> [isSequence |-> TRUE, totalSteps |-> Len(s.steps),
                        completedSteps |-> Len(completed(s)),
                        activeFn |-> a.seq.steps[a.idx].arn,
                        completed |-> [i \in 1..Len(completed(a.seq)) |->
                                          completed(a.seq)[i].arn],
                        remaining |-> [i \in 1..Len(remaining(a.seq)) |->
                                          remaining(a.seq)[i].arn],
                        steps |-> a.seq.steps, responses |-> a.seq.responses]]

\* deserialize(s) on the object this; a serialized non-sequence leaves this alone
deserializeNoResponses(this, o) ==
    IF ~o.isSequence THEN this
    ELSE [steps |-> o.steps, responses |-> EmptyResponses]

deserialize(this, o) ==
    IF ~o.isSequence THEN this
    ELSE [steps |-> o.steps, responses |-> o.responses]

\* the static LambdaSequence.deserialize(s)
deserializeStatic(o) == deserialize(EmptySequence, o)

\* the orchestrated envelope that carries a body and a sequence
buildOrchestratedRequest(body, s) ==
    [type |-> "orchestrated-message-body", body |-> body,
     sequence |-> toObject(s).obj]

NoRequest == [type |-> Absent, body |-> Params("none"), sequence |-> toObject(EmptySequence).obj]
NoTuple == [arn |-> Absent, request |-> NoRequest]

getInvocationParametersLenient(s) ==
    LET a == activeFn(s) IN
    IF Len(s.steps) = 0 THEN [seq |-> s, err |-> "TypeError", ret |-> NoTuple]
    ELSE IF a.err # NoErr
    THEN [seq |-> s, err |-> NoErr,
          ret |-> [arn |-> s.steps[Len(s.steps)].arn,
                   request |-> buildOrchestratedRequest(
                                  resolveRequestProperties(s, Len(s.steps)), s)]]
    ELSE [seq |-> a.seq, err |-> NoErr,
          ret |-> [arn |-> a.seq.steps[a.idx].arn,
                   request |-> buildOrchestratedRequest(
                                  resolveRequestProperties(a.seq, a.idx), a.seq)]]

getInvocationParameters(s) ==
    LET a == activeFn(s) IN
    IF a.err # NoErr THEN [seq |-> s, err |-> a.err, ret |-> NoTuple]
    ELSE IF a.idx = 0 THEN [seq |-> s, err |-> "TypeError", ret |-> NoTuple]
    ELSE [seq |-> a.seq, err |-> NoErr,
          ret |-> [arn |-> a.seq.steps[a.idx].arn,
                   request |-> buildOrchestratedRequest(
                                  resolveRequestProperties(a.seq, a.idx), a.seq)]]

\* next(currentFnResponse)
nextNoFinish(s, currentFnResponse) == getInvocationParameters(s)

next(s, currentFnResponse) ==
    LET f == finishStep(s, currentFnResponse) IN
    IF f.err # NoErr THEN [seq |-> f.seq, err |-> f.err, ret |-> NoTuple]
    ELSE getInvocationParameters(f.seq)

\* start(): invokeLambda(...this.getInvocationParameters())
startAsNext(s) == next(s, "empty")

start(s) == getInvocationParameters(s)

\* { ...params, ...request }: the keys of request win
Merge(params, request) ==
    [p |-> IF request.p # "none" THEN request.p ELSE params.p,
     _sequence |-> params._sequence \/ request._sequence]

ingestStepsSilent(s, request, steps) ==
    [seq |-> [s EXCEPT !.steps = steps], err |-> NoErr]

\* ingestSteps(request, steps)

ingestSteps(s, request, steps) ==
    IF Len(s.steps) > 0 THEN [seq |-> s, err |-> "Error"]
    ELSE LET t == [s EXCEPT !.steps = steps]
             a == activeFn(t)
         IN IF a.err # NoErr THEN [seq |-> t, err |-> a.err]
            ELSE IF a.idx = 0 THEN [seq |-> a.seq, err |-> NoErr]
            ELSE LET transformedRequest ==
                         Merge(a.seq.steps[a.idx].params, request)
                 IN [seq |-> [a.seq EXCEPT !.steps =
                                [i \in 1..Len(a.seq.steps) |->
                                   IF a.seq.steps[i].arn = a.seq.steps[a.idx].arn
                                   THEN [a.seq.steps[i] EXCEPT
                                            !.params = transformedRequest]
                                   ELSE a.seq.steps[i]]],
                     err |-> NoErr]

\* ------------------------------------------- the LambdaSequence as an object
\* a record of one call: the object before it, what it returned and threw,
\* and for a serialize/deserialize hop the object after toObject() and the
\* serialized form
Call(op, pre, arg, r) ==
    [op |-> op, pre |-> pre, arg |-> arg, err |-> r.err, ret |-> r.ret,
     mid |-> r.mid, wire |-> r.wire]
NoWire == toObject(EmptySequence).obj
Plain(r) == [err |-> r.err, ret |-> NoTuple, mid |-> EmptySequence, wire |-> NoWire]
Tupled(r) == [err |-> r.err, ret |-> r.ret, mid |-> EmptySequence, wire |-> NoWire]

\* the step lists of the sequences a conductor registers or sends as
\* _sequence, as add() and onCondition() build them
Plan(arns) == [i \in 1..Len(arns) |-> StepOf(arns[i], "static", "none")]
ConductorPlans == {Plan(<<"fnA">>), Plan(<<"fnA", "fnB">>), Plan(<<"fnA", "fnA">>)}
IngestInputs ==
    ConductorPlans \cup
    {<<>>, <<StepOf("fnB", "static", "alwaysFalse"), StepOf("fnA", "static", "none")>>,
     <<StepOf("fnA", "static", "none"), StepOf("fnB", "dyn", "none")>>}

SeqInit ==
    /\ seq = EmptySequence
    /\ last = Call("new", EmptySequence, "none", Plain([err |-> NoErr]))

CallAdd ==
    \E arn \in ARNs, params \in ParamChoices :
       /\ Len(seq.steps) < MaxSteps
       /\ seq' = add(seq, arn, params)
       /\ last' = Call("add", seq, arn, Plain([err |-> NoErr]))
       /\ UNCHANGED wrapperVars

CallOnCondition ==
    \E fn \in Predicates, arn \in ARNs, params \in ParamChoices :
       /\ Len(seq.steps) < MaxSteps
       /\ seq' = onCondition(seq, fn, arn, params)
       /\ last' = Call("onCondition", seq, arn, Plain([err |-> NoErr]))
       /\ UNCHANGED wrapperVars

CallOnError ==
    \E h \in ErrorHandlers :
       /\ seq' = onError(seq, h)
       /\ last' = Call("onError", seq, h, Plain([err |-> NoErr]))
       /\ UNCHANGED wrapperVars

ReadActiveFn ==
    LET r == activeFn(seq) IN
    /\ seq' = r.seq
    /\ last' = Call("activeFn", seq, "none", Plain(r))
    /\ UNCHANGED wrapperVars

CallFinishStep ==
    \E results \in Vals :
       LET r == finishStep(seq, results) IN
       /\ seq' = r.seq
       /\ last' = Call("finishStep", seq, results, Plain(r))
       /\ UNCHANGED wrapperVars

CallNext ==
    \E currentFnResponse \in Vals :
       LET r == next(seq, currentFnResponse) IN
       /\ seq' = r.seq
       /\ last' = Call("next", seq, currentFnResponse, Tupled(r))
       /\ UNCHANGED wrapperVars

CallStart ==
    LET r == start(seq) IN
    /\ seq' = r.seq
    /\ last' = Call("start", seq, "none", Tupled(r))
    /\ UNCHANGED wrapperVars

\* on an object that has steps the call throws before it looks at its input,
\* so one input stands for all of them there
CallIngestSteps ==
    \E request \in Requests,
       steps \in (IF Len(seq.steps) = 0 THEN IngestInputs
                  ELSE {<<StepOf("fnA", "static", "none")>>}) :
       LET r == ingestSteps(seq, Params(request), steps) IN
       /\ seq' = r.seq
       /\ last' = Call("ingestSteps", seq, request, Plain(r))
       /\ UNCHANGED wrapperVars

\* one hop between invocations: toObject() on the sender's object, the static
\* deserialize() on the receiver's side
Hop ==
    LET t == toObject(seq) IN
    /\ seq' = IF t.err # NoErr THEN t.seq ELSE deserializeStatic(t.obj)
    /\ last' = Call("hop", seq, "none",
                    [err |-> t.err, ret |-> NoTuple, mid |-> t.seq, wire |-> t.obj])
    /\ UNCHANGED wrapperVars

Next ==
    \/ CallAdd
    \/ CallOnCondition
    \/ CallOnError
    \/ ReadActiveFn
    \/ CallFinishStep
    \/ CallNext
    \/ CallStart
    \/ CallIngestSteps
    \/ Hop

\* the process before its first invocation
ProcessInit ==
    /\ newSequence = [set |-> FALSE, seq |-> EmptySequence]
    /\ inflight = [set |-> FALSE, request |-> NoRequest]
    /\ invocations = 0
    /\ pc = "idle"
    /\ event = [kind |-> "none", envelope |-> NoRequest, plan |-> <<>>,
                request |-> "none"]
    /\ sequence = EmptySequence
    /\ handler = [result |-> "undefined", statusCode |-> 0, error |-> "none",
                  registered |-> FALSE]
    /\ log = <<>>
    /\ outcome = [kind |-> "none", mgmt |-> "none", isApiGatewayRequest |-> FALSE,
                  value |-> [shape |-> "none", statusCode |-> 0,
                                               body |-> "undefined", type |-> "none"]]

Init ==
    /\ SeqInit
    /\ options = [sequenceTracker |-> FALSE]
    /\ ProcessInit

Spec == Init /\ [][Next]_vars

\* ------------------------------------------------------------ the wrapper
\* what a user handler returns: nothing, an object, a string or the empty
\* string.  Whether a result is a string matters to the marshalling of a
\* gateway response only, so the handlers of other events return the first two.
Results == {"undefined", "v1", "s1", ""}
ResultsFor(kind) == IF kind = "gateway" THEN Results ELSE {"undefined", "v1"}
\* the test "result ? ... : ..." and the test typeof result === "string"
Truthy(result) == result \notin {"undefined", ""}
IsString(result) == result \in {"s1", ""}
JSONstringify(result) == "json(" \o result \o ")"
\* next(currentFnResponse = {}): an undefined argument becomes {}
ResponseOf(result) == IF result = "undefined" THEN "empty" ELSE result
\* the code a handler sets with setSuccessCode (0: it sets none)
SuccessCodes == {0, 201}
HttpSuccess == 200
HttpAccepted == 202
HttpNoContent == 204
\* the code of a registered expectation, the default error code of the
\* matcher and the code of a ServerlessError a handler throws
ErrorCodes == [expected |-> 404, default |-> 500, serverless |-> 403]
\* what a handler throws
Thrown == {"Error", "ServerlessError"}
\* what the handler's error management says about a thrown Error: the
\* expectation that matches it and its disposition, or, when none matches,
\* the default policy
ErrorMgmts ==
    {"no-handling", "callback-truthy", "callback-falsy", "forwardTo",
     "default", "handler-fn-true", "handler-fn-truthy", "handler-fn-falsy",
     "handler-fn-throws",
     "error-forwarding", "default-error"}
\* a classification is prefix/rest
NoClassification == [prefix |-> Absent, rest |-> Absent]
Value(shape, code, body, type) ==
    [shape |-> shape, statusCode |-> code, body |-> body, type |-> type,
     functionName |-> Absent, correlationId |-> Absent, awsRequestId |-> Absent,
     classification |-> NoClassification]
\* the values a wrapper returns or throws
Plainly(result) == Value("plain", 0, result, "none")
GatewayResponse(code, body) == Value("gateway", code, body, "none")
GatewayError(type, code) == Value("gateway-error", code, "undefined", type)
ErrorOf(class, type, code) == Value(class, code, "undefined", type)

\* the platform context of an invocation, and the handler context the wrapper
\* builds from it and from the correlation id of the logger
Context == [functionName |-> "myHandlerFunction", awsRequestId |-> "1234"]
HandlerContext ==
    [functionName |-> Context.functionName, awsRequestId |-> Context.awsRequestId,
     correlationId |-> "c-123"]
\* new ServerlessError(code, message, classification)
ServerlessError(code, classification) ==
    [Value("ServerlessError", code, "undefined", "serverless-error") EXCEPT
        !.classification = [prefix |-> "aws-orchestrate", rest |-> classification]]

enrichNoCorrelation(found) ==
    [found EXCEPT !.functionName = Context.functionName,
                  !.awsRequestId = HandlerContext.awsRequestId]

\* what the catch block sets on a ServerlessError before it throws it again
enrich(found) ==
    [found EXCEPT
        !.functionName = Context.functionName,
        !.classification.prefix =
            IF @ = "aws-orchestrate" THEN Context.functionName ELSE @,
        !.correlationId = HandlerContext.correlationId,
        !.awsRequestId = HandlerContext.awsRequestId]

Entry(ev, arn, ok) == [ev |-> ev, arn |-> arn, ok |-> ok]

\* getNewSequence(): newSequence || LambdaSequence.notASequence()
getNewSequence == IF newSequence.set THEN newSequence.seq ELSE notASequence

\* a bare event as the object the platform hands over
BareEvent(ev) == [p |-> ev.request, _sequence |-> Len(ev.plan) > 0]

\* LambdaSequence.from(event) on a new object: the sequence and the request
\* it unboxes.  The params of the active step of the new object are laid
\* under the request; only ingestSteps gives the new object steps.  A bare
\* event of kind "malformed" carries a _sequence that is a string and not
\* JSON: ingestSteps hands it to JSON.parse, which throws.
from(ev) ==
    CASE ev.kind = "gateway" ->
           [sequence |-> notASequence, request |-> Params("none"), err |-> NoErr]
      [] ev.kind = "orchestrated" ->
           [sequence |-> deserializeStatic(ev.envelope.sequence),
            request |-> ev.envelope.body, err |-> NoErr]
      [] ev.kind = "malformed" ->
           [sequence |-> EmptySequence, request |-> Params("none"),
            err |-> "SyntaxError"]
      [] ev.kind = "bare" ->
           IF Len(ev.plan) > 0
           THEN LET this == ingestSteps(EmptySequence, BareEvent(ev), ev.plan).seq
                    stripped == [BareEvent(ev) EXCEPT !._sequence = FALSE]
                    a == activeFn(this)
                IN [sequence |-> a.seq,
                    request |-> Merge(a.seq.steps[a.idx].params, stripped),
                    err |-> NoErr]
           ELSE [sequence |-> notASequence, request |-> BareEvent(ev), err |-> NoErr]

\* the regions of the wrapper's try block, in the order the code runs them
NextRegionTrackerFirst(region) ==
    CASE region = "running-function" -> "sequence-tracker"
      [] region = "sequence-tracker" -> "sequence-next"
      [] region = "sequence-next" -> "sequence-starting"
      [] region = "sequence-starting" -> "returning-values"

NextRegion(region) ==
    CASE region = "running-function" -> "sequence-next"
      [] region = "sequence-next" -> "sequence-starting"
      [] region = "sequence-starting" -> "sequence-tracker"
      [] region = "sequence-tracker" -> "returning-values"

\* an awaited invoke that succeeds moves on, one that fails throws into catch
AfterInvoke(region, ok) == IF ok THEN NextRegion(region) ELSE "error-handling"
Failing(ok) == IF ok THEN handler ELSE [handler EXCEPT !.error = "Error"]

\* the plans of a bare event whose one step carries a conductor error policy:
\* an [arn, params] tuple ("forward") or a function ("callback")
PolicyPlans ==
    {<<[StepOf("fnA", "static", "none") EXCEPT !.onError = h]>> : h \in ErrorHandlers}

\* the platform invokes the wrapped handler: with a bare event (that may carry
\* a _sequence, well-formed or not), with a gateway proxy event, or with an
\* envelope sent earlier.  LambdaSequence.from(event) runs before the try
\* block of the wrapper, so what it throws leaves the wrapper at once.
Invoke ==
    /\ pc = "idle"
    /\ invocations < MaxInvocations
    /\ \E ev \in {[kind |-> "bare", envelope |-> NoRequest, plan |-> b, request |-> q] :
                     b \in ConductorPlans, q \in Requests}
                 \cup {[kind |-> "bare", envelope |-> NoRequest, plan |-> b,
                        request |-> "none"] : b \in PolicyPlans}
                 \cup {[kind |-> k, envelope |-> NoRequest, plan |-> <<>>,
                        request |-> "none"] : k \in {"bare", "gateway", "malformed"}}
                 \cup (IF inflight.set
                       THEN {[kind |-> "orchestrated", envelope |-> inflight.request,
                              plan |-> <<>>, request |-> "none"]}
                       ELSE {}) :
          LET unboxed == from(ev) IN
          /\ event' = ev
          /\ sequence' = unboxed.sequence
          /\ IF unboxed.err # NoErr
             THEN /\ log' = <<Entry("threw", Absent, TRUE)>>
                  /\ outcome' = [kind |-> "threw", mgmt |-> "none",
                                 isApiGatewayRequest |-> FALSE,
                                 value |-> ErrorOf(unboxed.err, "none", 0)]
                  /\ pc' = "idle"
             ELSE /\ log' = <<>>
                  /\ outcome' = [kind |-> "none", mgmt |-> "none",
                                 isApiGatewayRequest |-> FALSE,
                                 value |-> Value("none", 0, "undefined", "none")]
                  /\ pc' = "running-function"
    /\ invocations' = invocations + 1
    /\ handler' = [result |-> "undefined", statusCode |-> 0, error |-> "none",
                  registered |-> FALSE]
    /\ UNCHANGED <<seqVars, options, newSequence, inflight>>

\* registerSequence(s): the log call reads s.toObject(), then newSequence = s
registerSequence(plan) ==
    [set |-> TRUE, seq |-> toObject([steps |-> plan, responses |-> EmptyResponses]).seq]

\* the user handler returns; it may have set a success code (read for gateway
\* events only) and registered a new sequence
HandlerReturns ==
    /\ pc = "running-function"
    /\ \E result \in ResultsFor(event.kind),
          code \in (IF event.kind = "gateway" THEN SuccessCodes ELSE {0}) :
          \/ /\ handler' = [result |-> result, statusCode |-> code,
                             error |-> "none", registered |-> FALSE]
             /\ UNCHANGED newSequence
          \/ \E plan \in ConductorPlans :
                /\ handler' = [result |-> result, statusCode |-> code,
                               error |-> "none", registered |-> TRUE]
                /\ newSequence' = registerSequence(plan)
    /\ log' = Append(log, Entry("handler-returned", Absent, TRUE))
    /\ pc' = NextRegion("running-function")
    /\ UNCHANGED <<seqVars, options, inflight, invocations, event, sequence, outcome>>

\* the user handler throws; it may have registered a new sequence before
HandlerThrows ==
    /\ pc = "running-function"
    /\ \E e \in Thrown :
          \/ /\ handler' = [result |-> "undefined", statusCode |-> 0,
                             error |-> e, registered |-> FALSE]
             /\ UNCHANGED newSequence
          \/ \E plan \in ConductorPlans :
                /\ handler' = [result |-> "undefined", statusCode |-> 0,
                               error |-> e, registered |-> TRUE]
                /\ newSequence' = registerSequence(plan)
    /\ log' = Append(log, Entry("handler-threw", Absent, TRUE))
    /\ pc' = "error-handling"
    /\ UNCHANGED <<seqVars, options, inflight, invocations, event, sequence, outcome>>

\* SEQUENCE (next): sequence.next(result) and the awaited invoke of its tuple
SequenceNext ==
    /\ pc = "sequence-next"
    /\ IF isSequence(sequence) /\ ~isDone(sequence)
       THEN LET r == next(sequence, ResponseOf(handler.result)) IN
            /\ sequence' = r.seq
            /\ IF r.err # NoErr
               THEN /\ pc' = "error-handling"
                    /\ handler' = [handler EXCEPT !.error = "Error"]
                    /\ UNCHANGED <<log, inflight>>
               ELSE \E ok \in BOOLEAN :
                       /\ log' = Append(log, Entry("continuation-invoke", r.ret.arn, ok))
                       /\ inflight' = IF ok THEN [set |-> TRUE, request |-> r.ret.request]
                                      ELSE inflight
                       /\ handler' = Failing(ok)
                       /\ pc' = AfterInvoke("sequence-next", ok)
       ELSE /\ pc' = NextRegion("sequence-next")
            /\ UNCHANGED <<sequence, log, inflight, handler>>
    /\ UNCHANGED <<seqVars, options, newSequence, invocations, event, outcome>>

\* SEQUENCE (orchestration starting): invokeNewSequence(result), that is
\* newSequence.start(), when getNewSequence() is a sequence
SequenceStarting ==
    /\ pc = "sequence-starting"
    /\ IF isSequence(getNewSequence)
       THEN LET r == start(newSequence.seq) IN
            /\ newSequence' = [newSequence EXCEPT !.seq = r.seq]
            /\ IF r.err # NoErr
               THEN /\ pc' = "error-handling"
                    /\ handler' = [handler EXCEPT !.error = "Error"]
                    /\ UNCHANGED <<log, inflight>>
               ELSE \E ok \in BOOLEAN :
                       /\ log' = Append(log, Entry("new-sequence-invoke", r.ret.arn, ok))
                       /\ inflight' = IF ok THEN [set |-> TRUE, request |-> r.ret.request]
                                      ELSE inflight
                       /\ handler' = Failing(ok)
                       /\ pc' = AfterInvoke("sequence-starting", ok)
       ELSE /\ pc' = NextRegion("sequence-starting")
            /\ UNCHANGED <<newSequence, log, inflight, handler>>
    /\ UNCHANGED <<seqVars, options, invocations, event, sequence, outcome>>

\* SEQUENCE (send to tracker)
SequenceTracker ==
    /\ pc = "sequence-tracker"
    /\ IF options.sequenceTracker /\ isSequence(sequence)
       THEN \E ok \in BOOLEAN :
               /\ log' = Append(log, Entry("tracker-invoke", "tracker", ok))
               /\ handler' = Failing(ok)
               /\ pc' = AfterInvoke("sequence-tracker", ok)
       ELSE /\ pc' = NextRegion("sequence-tracker")
            /\ UNCHANGED <<log, handler>>
    /\ UNCHANGED <<seqVars, options, newSequence, inflight, invocations, event,
                   sequence, outcome>>

\* RETURN-VALUES
returnValuesAlwaysSuccess(isApiGatewayRequest, h) ==
    IF isApiGatewayRequest
    THEN GatewayResponse(HttpSuccess, JSONstringify(h.result))
    ELSE Plainly(h.result)

returnValues(isApiGatewayRequest, h) ==
    IF isApiGatewayRequest
    THEN GatewayResponse(
            IF h.statusCode # 0 THEN h.statusCode
            ELSE IF Truthy(h.result) THEN HttpSuccess ELSE HttpNoContent,
            IF Truthy(h.result)
            THEN (IF IsString(h.result) THEN h.result ELSE JSONstringify(h.result))
            ELSE "")
    ELSE Plainly(h.result)

ReturnValues ==
    /\ pc = "returning-values"
    /\ outcome' = [kind |-> "returned", mgmt |-> "none",
                   isApiGatewayRequest |-> event.kind = "gateway",
                   value |-> returnValues(event.kind = "gateway", handler)]
    /\ log' = Append(log, Entry("returned", Absent, TRUE))
    /\ pc' = "idle"
    /\ UNCHANGED <<seqVars, options, newSequence, inflight, invocations, event,
                   sequence, handler>>

\* ERROR-HANDLING, the inner try block: what it does with the thrown value e
\* under the handler's error management.  It returns a value, throws one, or
\* falls through to the end of the wrapper, which then returns undefined.
Outcome(how, value, invoked) == [how |-> how, value |-> value, invoked |-> invoked]

\* the errors the cascade makes.  A HandledError is given the context of the
\* logger, an UnhandledError the code and the error only.
HandledError(code) ==
    [ErrorOf("HandledError", "handled-error", code) EXCEPT
        !.correlationId = HandlerContext.correlationId]
UnhandledError(code) == ErrorOf("UnhandledError", "unhandled-error", code)
\* the error object of a default-error policy, with its type set
DefaultError == ErrorOf("Error", "default-error", ErrorCodes.default)
ErrorWithinError == ErrorOf("ErrorWithinError", "error-within-error", 0)
RethrowErrorUntyped(err) == ErrorOf("RethrowError", "none", err.statusCode)

\* new RethrowError(err): message, code, name, stack, type and httpStatus
RethrowError(err) == ErrorOf("RethrowError", err.type, err.statusCode)
\* the gateway error response of an error
convertToApiGatewayError(err) ==
    [GatewayError(err.type, err.statusCode) EXCEPT
        !.correlationId = HandlerContext.correlationId]

SurfaceThrows(isApiGatewayRequest, err) == Outcome("throw", err, <<>>)

\* if (isApiGatewayRequest) return convertToApiGatewayError(err) else throw err
Surface(isApiGatewayRequest, err) ==
    IF isApiGatewayRequest THEN Outcome("return", convertToApiGatewayError(err), <<>>)
    ELSE Outcome("throw", err, <<>>)

\* a branch that neither returns nor throws
Resolved == Outcome("fallthrough", Plainly("undefined"), <<>>)

ForwardTwice(arn, ok) ==
    Outcome("fallthrough", Plainly("undefined"),
            <<Entry("forward-invoke", arn, ok), Entry("forward-invoke", arn, ok)>>)

\* await invokeLambda(arn, e): a rejection is thrown inside the inner try
Forward(arn, ok) ==
    IF ok THEN Outcome("fallthrough", Plainly("undefined"), <<Entry("forward-invoke", arn, ok)>>)
    ELSE Outcome("throw", ErrorOf("Error", "none", 0), <<Entry("forward-invoke", arn, ok)>>)

callbackAlwaysResolves(resolvedLocally, isApiGatewayRequest) == Resolved

\* found.handling.callback(e)
callback(resolvedLocally, isApiGatewayRequest) ==
    IF ~resolvedLocally
    THEN Surface(isApiGatewayRequest, HandledError(ErrorCodes.expected))
    ELSE Resolved

handlerFnNeverResolves(passed, isApiGatewayRequest, h) ==
    IF passed = "throws"
    THEN Surface(isApiGatewayRequest, UnhandledError(ErrorCodes.default))
    ELSE Resolved

\* case "handler-fn": passed is what defaultHandlerFn(e) returns ("true",
\* another truthy value, a falsy value), or "throws"
handlerFn(passed, isApiGatewayRequest, h) ==
    CASE passed = "throws" ->
           Surface(isApiGatewayRequest, UnhandledError(ErrorCodes.default))
      [] passed = "true" ->
           IF isApiGatewayRequest
           THEN Outcome("return",
                   GatewayResponse(
                      IF Truthy(h.result) THEN HttpAccepted ELSE HttpNoContent,
                      IF Truthy(h.result) THEN JSONstringify(h.result) ELSE ""), <<>>)
           ELSE Outcome("return", Plainly(h.result), <<>>)
      [] OTHER -> Resolved

defaultPolicyAsHandled(isApiGatewayRequest) ==
    Surface(isApiGatewayRequest, HandledError(ErrorCodes.expected))

\* case "default"
defaultPolicy(isApiGatewayRequest) ==
    Surface(isApiGatewayRequest, UnhandledError(ErrorCodes.default))

errorHandling(e, mgmt, isApiGatewayRequest, h, ok) ==
    IF e = "ServerlessError"
    THEN Outcome("throw", enrich(ServerlessError(ErrorCodes.serverless, "auth")), <<>>)
    ELSE CASE mgmt = "no-handling" ->
                Surface(isApiGatewayRequest, HandledError(ErrorCodes.expected))
           [] mgmt = "callback-falsy" -> callback(FALSE, isApiGatewayRequest)
           [] mgmt = "callback-truthy" -> callback(TRUE, isApiGatewayRequest)
           [] mgmt = "forwardTo" -> Forward("forwardTo", ok)
           [] mgmt = "handler-fn-true" -> handlerFn("true", isApiGatewayRequest, h)
           [] mgmt = "handler-fn-truthy" -> handlerFn("truthy", isApiGatewayRequest, h)
           [] mgmt = "handler-fn-falsy" -> handlerFn("falsy", isApiGatewayRequest, h)
           [] mgmt = "handler-fn-throws" -> handlerFn("throws", isApiGatewayRequest, h)
           [] mgmt = "error-forwarding" -> Forward("error-forwarding", ok)
           [] mgmt = "default-error" -> Surface(isApiGatewayRequest, DefaultError)
           [] mgmt = "default" -> defaultPolicy(isApiGatewayRequest)

\* catch (errorOfError): what the wrapper does with a value thrown inside the
\* inner try block.  It reads sequence.activeFn for a conductor policy: an
\* onError that is an array is forwarded to, one that is a function is looked
\* up (conductorErrorHandler) but never called.
TypedErrors == {"unhandled-error", "handled-error", "default-error"}
forwardedByConductor(s) ==
    LET a == activeFn(s) IN
    a.err = NoErr /\ a.idx # 0 /\ a.seq.steps[a.idx].onError = "forward"

errorOfErrorFinishing(thrown, s, ok) ==
    [seq |-> finishStep(s, "empty").seq, how |-> "throw", value |-> thrown,
     invoked |-> <<>>]

errorOfError(thrown, s, ok) ==
    IF thrown.shape = "ServerlessError"
    THEN [seq |-> s, how |-> "throw", value |-> thrown, invoked |-> <<>>]
    ELSE LET a == activeFn(s) IN
         IF a.err # NoErr
         THEN [seq |-> s, how |-> "throw", value |-> ErrorOf("Error", "none", 0),
               invoked |-> <<>>]
         ELSE IF forwardedByConductor(s)
         THEN [seq |-> a.seq, how |-> IF ok THEN "fallthrough" ELSE "throw",
               value |-> IF ok THEN Plainly("undefined") ELSE ErrorOf("Error", "none", 0),
               invoked |-> <<Entry("conductor-invoke", "onError", ok)>>]
         ELSE IF thrown.type \in TypedErrors
         THEN [seq |-> a.seq, how |-> "throw", value |-> RethrowError(thrown),
               invoked |-> <<>>]
         ELSE [seq |-> a.seq, how |-> "throw", value |-> ErrorWithinError,
               invoked |-> <<>>]

\* ERROR-HANDLING: the catch block of the wrapper.  Whether the stripped
\* copy of a gateway event still counts as a proxy request is decided by
\* isLambdaProxyRequest of common-types, so both answers are taken.  The
\* outcome records the error management that applied and that answer.  An
\* input is drawn where the code reads it: the error management for an error
\* that is not a ServerlessError, the result of an invoke where one is made.
Forwarding == {"forwardTo", "error-forwarding"}
ErrorHandling ==
    /\ pc = "error-handling"
    /\ \E mgmt \in (IF handler.error = "ServerlessError" THEN {"none"} ELSE ErrorMgmts),
          isApiGatewayRequest \in (IF event.kind = "gateway" THEN BOOLEAN ELSE {FALSE}) :
       \E ok \in (IF mgmt \in Forwarding THEN BOOLEAN ELSE {TRUE}) :
       \E forwarded \in (IF forwardedByConductor(sequence) THEN BOOLEAN ELSE {TRUE}) :
          LET r == errorHandling(handler.error, mgmt, isApiGatewayRequest, handler, ok)
              c == errorOfError(r.value, sequence, forwarded)
              final == IF r.how = "throw" THEN c
                       ELSE [seq |-> sequence, how |-> r.how, value |-> r.value,
                             invoked |-> <<>>]
          IN /\ sequence' = final.seq
             /\ outcome' =
                   [kind |-> IF final.how = "throw" THEN "threw" ELSE "returned",
                    value |-> IF final.how = "fallthrough" THEN Plainly("undefined")
                              ELSE final.value,
                    mgmt |-> mgmt,
                    isApiGatewayRequest |-> isApiGatewayRequest]
             /\ log' = log \o r.invoked \o final.invoked \o
                       <<Entry(IF final.how = "throw" THEN "threw" ELSE "returned",
                               Absent, TRUE)>>
    /\ pc' = "idle"
    /\ UNCHANGED <<seqVars, options, newSequence, inflight, invocations, event, handler>>

WrapperInit ==
    /\ SeqInit
    /\ options \in {[sequenceTracker |-> b] : b \in BOOLEAN}
    /\ ProcessInit

WrapperNext ==
    \/ Invoke
    \/ HandlerReturns
    \/ HandlerThrows
    \/ SequenceNext
    \/ SequenceStarting
    \/ SequenceTracker
    \/ ReturnValues
    \/ ErrorHandling

WrapperSpec == WrapperInit /\ [][WrapperNext]_vars


\* ------------------------------------------------------------------ claims
Rank(st) ==
    CASE st = "assigned" -> 0
      [] st = "skipped" -> 0
      [] st = "active" -> 1
      [] st = "completed" -> 2

HasActive(s) == WithStatus(s.steps, "active") # {}
HasAssigned(s) == WithStatus(s.steps, "assigned") # {}
\* a freshly built sequence: every step assigned, no response recorded
Fresh(s) ==
    /\ Len(s.steps) > 0
    /\ \A i \in 1..Len(s.steps) : s.steps[i].status = "assigned"
    /\ s.responses = EmptyResponses

\* C1: whatever calls are made on a sequence built with add/onCondition and
\* carried by serialize/deserialize, at most one step has status active
C1_AtMostOneActive == Cardinality(WithStatus(seq.steps, "active")) <= 1

\* a step is active after a step before it was completed by next()
C1_Witness ==
    /\ last.op = "next"
    /\ Cardinality(WithStatus(seq.steps, "active")) = 1
    /\ WithStatus(seq.steps, "completed") # {}
    /\ WithStatus(seq.steps, "assigned") # {}

\* C2: the status of a step never moves back: not from active to assigned,
\* not from completed to active or assigned
C2_StatusMonotone ==
    [][\A i \in 1..Len(seq.steps) :
          i <= Len(seq'.steps) =>
             Rank(seq'.steps[i].status) >= Rank(seq.steps[i].status)]_vars

\* a step was completed by a call on an object that then went through a hop
C2_Witness ==
    /\ last.op = "hop"
    /\ last.err = NoErr
    /\ WithStatus(seq.steps, "completed") # {}
    /\ WithStatus(seq.steps, "active") # {}

\* C3: read in step order the statuses are completed steps, then at most one
\* active step, then assigned or skipped steps
C3_StatusOrder ==
    \A i, j \in 1..Len(seq.steps) :
       i < j => Rank(seq.steps[i].status) >= Rank(seq.steps[j].status)
                /\ ~(seq.steps[i].status = "active" /\ seq.steps[j].status = "active")

C3_Witness ==
    /\ Len(seq.steps) = 3
    /\ seq.steps[1].status = "completed"
    /\ seq.steps[2].status = "active"
    /\ seq.steps[3].status = "assigned"

\* C4: next(r) on a sequence with an active step X and an assigned step
\* completes X, records r under X's ARN, makes the first assigned step Y the
\* only active step and returns Y's ARN with an envelope whose sequence shows
\* X completed and Y active
C4_NextApplies ==
    /\ last.op = "next"
    /\ HasActive(last.pre)
    /\ HasAssigned(last.pre)

C4_NextAdvances ==
    C4_NextApplies =>
       LET x == FirstWithStatus(last.pre.steps, "active")
           y == FirstWithStatus(last.pre.steps, "assigned")
       IN /\ last.err = NoErr
          /\ seq.steps[x].status = "completed"
          /\ seq.responses[last.pre.steps[x].arn] = last.arg
          /\ WithStatus(seq.steps, "active") = {y}
          /\ last.ret.arn = last.pre.steps[y].arn
          /\ last.ret.request.sequence.isSequence
          /\ last.ret.request.sequence.steps[x].status = "completed"
          /\ last.ret.request.sequence.steps[y].status = "active"
          /\ last.ret.request.sequence.responses[last.pre.steps[x].arn] = last.arg

C4_Witness ==
    /\ C4_NextApplies
    /\ last.arg = "v1"
    /\ Len(last.pre.steps) = 3
    /\ last.pre.steps[1].status = "completed"

Statuses(s) == [i \in 1..Len(s.steps) |-> s.steps[i].status]
\* two objects with the same step list, responses map and derived flags
SameSequence(a, b) ==
    /\ a.steps = b.steps
    /\ a.responses = b.responses
    /\ isSequence(a) = isSequence(b)
    /\ isDone(a) = isDone(b)

Hopped == last.op = "hop" /\ last.err = NoErr

StartedFresh == last.op = "start" /\ Fresh(last.pre)

\* C10 as stated: on a freshly built sequence start() targets the step that
\* next({}) targets and leaves the statuses and responses that next({}) leaves
C10_StartIsNext ==
    StartedFresh =>
       LET n == next(last.pre, "empty") IN
       /\ last.err = n.err
       /\ last.ret.arn = n.ret.arn
       /\ Statuses(seq) = Statuses(n.seq)
       /\ seq.responses = n.seq.responses

\* C10: on a freshly built sequence start() targets the first step, leaves it
\* active and every other step assigned, and records no response; next({})
\* on the same sequence completes the first step and records {} for it
C10_StartTargetsFirst ==
    StartedFresh =>
       /\ last.err = NoErr
       /\ last.ret.arn = last.pre.steps[1].arn
       /\ Statuses(seq) = [i \in 1..Len(last.pre.steps) |->
                             IF i = 1 THEN "active" ELSE "assigned"]
       /\ seq.responses = EmptyResponses
       /\ last.ret.request.sequence.steps = seq.steps
       /\ LET n == next(last.pre, "empty") IN
          /\ n.seq.steps[1].status = "completed"
          /\ n.seq.responses[last.pre.steps[1].arn] = "empty"

C10_Witness ==
    /\ StartedFresh
    /\ Len(last.pre.steps) = 2
    /\ last.pre.steps[1].arn # last.pre.steps[2].arn

\* ---------------------------------------------------- claims on the wrapper
Events(ev) == SelectSeq(log, LAMBDA x : x.ev = ev)
HandlerReturned == Len(Events("handler-returned")) > 0
\* the wrapper is past its SEQUENCE (next) region
PastNext == HandlerReturned /\ pc # "sequence-next"
\* the sequence as the wrapper unboxed it, which is what the handler leaves
Unboxed == from(event).sequence

\* C5: after the handler returned the wrapper has made exactly one
\* continuation invoke, to the ARN of the first assigned step, when the
\* unboxed sequence has steps and an assigned step, and none otherwise
C5_OneContinuation ==
    PastNext =>
       IF isSequence(Unboxed) /\ HasAssigned(Unboxed)
       THEN /\ Len(Events("continuation-invoke")) = 1
            /\ Events("continuation-invoke")[1].arn =
                  Unboxed.steps[FirstWithStatus(Unboxed.steps, "assigned")].arn
       ELSE Len(Events("continuation-invoke")) = 0

\* a step of a sequence whose next step has another ARN has been continued
C5_Witness ==
    /\ pc = "idle"
    /\ event.kind = "orchestrated"
    /\ outcome.kind = "returned"
    /\ Len(Events("continuation-invoke")) = 1
    /\ Events("continuation-invoke")[1].arn = "fnB"

\* C6: in one invocation the continuation invoke comes after the handler's
\* return, the start of a new sequence after the continuation invoke, the
\* tracker invoke after both, and the return of the response after all
Order(ev) ==
    CASE ev = "handler-returned" -> 1
      [] ev = "handler-threw" -> 1
      [] ev = "continuation-invoke" -> 2
      [] ev = "new-sequence-invoke" -> 3
      [] ev = "tracker-invoke" -> 4
      [] ev = "forward-invoke" -> 5
      [] ev = "conductor-invoke" -> 6
      [] ev = "returned" -> 7
      [] ev = "threw" -> 7

C6_Ordered ==
    /\ \A i, j \in 1..Len(log) : i < j => Order(log[i].ev) < Order(log[j].ev)
    /\ \A j \in 1..Len(log) :
          log[j].ev \in {"continuation-invoke", "new-sequence-invoke",
                         "tracker-invoke"} => log[1].ev = "handler-returned"

\* an invocation that made all three invokes and returned
C6_Witness ==
    /\ pc = "idle"
    /\ outcome.kind = "returned"
    /\ Len(Events("continuation-invoke")) = 1
    /\ Len(Events("new-sequence-invoke")) = 1
    /\ Len(Events("tracker-invoke")) = 1

\* C7: when the continuation invoke or the tracker invoke fails, the wrapper
\* still returns the handler's return value (marshalled for a gateway event)
InvokeFailed ==
    \E i \in 1..Len(log) :
       log[i].ev \in {"continuation-invoke", "tracker-invoke"} /\ ~log[i].ok

C7_InvokeFailureSwallowed ==
    (pc = "idle" /\ InvokeFailed) =>
       /\ outcome.kind = "returned"
       /\ outcome.value = returnValues(event.kind = "gateway", handler)

\* C8: an invocation whose handler registers no sequence starts no new
\* sequence, also when an earlier invocation of the process registered one
C8_NoBleed ==
    (HandlerReturned /\ ~handler.registered /\ invocations >= 2) =>
       Len(Events("new-sequence-invoke")) = 0

\* C11: when the handler registered a new sequence and returned a value, the
\* wrapper invokes the first step of that sequence with an envelope whose
\* body carries the value the handler returned
NewSequenceStarted ==
    /\ pc = "sequence-tracker"
    /\ handler.registered
    /\ Len(log) > 0
    /\ log[Len(log)].ev = "new-sequence-invoke"

C11_SeededWithResult ==
    (NewSequenceStarted /\ handler.result # "undefined") =>
       /\ log[Len(log)].arn = newSequence.seq.steps[1].arn
       /\ inflight.request.body.p = handler.result

\* C12: once the wrapper is past its two SEQUENCE regions it has made one
\* continuation invoke exactly when the invocation is a non-final step, one
\* new-sequence invoke exactly when the handler registered a sequence, and
\* the continuation invoke first when it made both
PastStarting == HandlerReturned /\ pc \in {"sequence-tracker", "returning-values"}
NonFinal == isSequence(Unboxed) /\ HasAssigned(Unboxed)

C12_BothOrExactlyOne ==
    PastStarting =>
       /\ Len(Events("continuation-invoke")) = (IF NonFinal THEN 1 ELSE 0)
       /\ Len(Events("new-sequence-invoke")) = (IF handler.registered THEN 1 ELSE 0)
       /\ \A i, j \in 1..Len(log) :
             (log[i].ev = "continuation-invoke" /\ log[j].ev = "new-sequence-invoke")
                => i < j

\* C13: next() on a sequence that has no assigned step throws and returns no
\* invocation tuple
NextWithoutAssigned == last.op = "next" /\ ~HasAssigned(last.pre)

C13_NextFails ==
    NextWithoutAssigned => (last.err # NoErr /\ last.ret = NoTuple)

\* next() on the last step of a two-step sequence, the step being active
C13_Witness ==
    /\ NextWithoutAssigned
    /\ Statuses(last.pre) = <<"completed", "active">>
    /\ last.err = "Error"

\* C14: a step whose predicate is false is never made active or completed
\* (it stays assigned or becomes skipped), and no call that returns an
\* invocation tuple targets it
Targeting == last.op \in {"next", "start"} /\ last.err = NoErr

C14_FalseConditionSkips ==
    /\ \A i \in 1..Len(seq.steps) :
          seq.steps[i].onCondition = "alwaysFalse" =>
             seq.steps[i].status \in {"assigned", "skipped"}
    /\ Targeting =>
          seq.steps[FirstWithStatus(seq.steps, "active")].onCondition # "alwaysFalse"

\* C15: after onError(h) on a sequence that has steps the last step carries h
\* as its onError and every other step is as it was
OnErrorCalled == last.op = "onError" /\ Len(last.pre.steps) > 0

C15_OnErrorAttaches ==
    OnErrorCalled =>
       /\ Len(seq.steps) = Len(last.pre.steps)
       /\ seq.steps[Len(seq.steps)].onError = last.arg
       /\ \A i \in 1..(Len(seq.steps) - 1) : seq.steps[i] = last.pre.steps[i]

\* C16: next() throws and returns no tuple when the step it activates has a
\* dynamic reference that the responses map, as it is once the current
\* step's response is recorded, does not resolve
DynamicMiss ==
    /\ last.op = "next"
    /\ HasActive(last.pre)
    /\ HasAssigned(last.pre)
    /\ last.pre.steps[FirstWithStatus(last.pre.steps, "assigned")].params.p = "dyn"
    /\ Lookup(finishStep(last.pre, last.arg).seq.responses) = "undefined"

C16_DynamicMissFails == DynamicMiss => (last.err # NoErr /\ last.ret = NoTuple)

\* C17: ingestSteps on a sequence that has steps throws and leaves the step
\* list and the responses map as they were
IngestOnSteps == last.op = "ingestSteps" /\ Len(last.pre.steps) > 0

C17_IngestRefused ==
    IngestOnSteps =>
       /\ last.err = "Error"
       /\ seq.steps = last.pre.steps
       /\ seq.responses = last.pre.responses

\* ingestSteps on a sequence with a completed step, its response and an
\* active step
C17_Witness ==
    /\ IngestOnSteps
    /\ Statuses(last.pre) = <<"completed", "active">>
    /\ last.pre.responses[last.pre.steps[1].arn] = "v1"

\* C18: for a bare event that carries _sequence the unboxed sequence holds the
\* steps of _sequence in their order, and the unboxed request has the other
\* property of the event and no _sequence property
BareWithSequence == event.kind = "bare" /\ Len(event.plan) > 0

C18_SequenceStripped ==
    BareWithSequence =>
       /\ [i \in 1..Len(Unboxed.steps) |-> Unboxed.steps[i].arn] =
             [i \in 1..Len(event.plan) |-> event.plan[i].arn]
       /\ (event.request # "none" => from(event).request.p = event.request)
       /\ ~from(event).request._sequence

\* C19: on the success path the wrapper returns, for a gateway event, a
\* response whose status code is the code the handler set, else 200 when the
\* result is non-empty and 204 otherwise, and whose body is the result, as a
\* JSON string unless it is a string already (the empty string when there is
\* no result); for any other event it returns the result unchanged
SuccessReturn ==
    /\ pc = "idle"
    /\ handler.error = "none"
    /\ Len(log) > 0
    /\ log[Len(log)].ev = "returned"

C19_ReturnValues ==
    SuccessReturn =>
       /\ outcome.kind = "returned"
       /\ IF event.kind = "gateway"
          THEN /\ outcome.value.shape = "gateway"
               /\ outcome.value.statusCode =
                     (IF handler.statusCode # 0 THEN handler.statusCode
                      ELSE IF handler.result \in {"v1", "s1"} THEN 200 ELSE 204)
               /\ outcome.value.body =
                     (CASE handler.result = "v1" -> "json(v1)"
                        [] handler.result = "s1" -> "s1"
                        [] OTHER -> "")
          ELSE /\ outcome.value.shape = "plain"
               /\ outcome.value.body = handler.result

\* a gateway event whose handler returned an object and set no code
C19_Witness ==
    /\ SuccessReturn
    /\ event.kind = "gateway"
    /\ handler.result = "v1"
    /\ handler.statusCode = 0
    /\ outcome.value.statusCode = 200

\* C20: when the handler throws a ServerlessError the wrapper throws that
\* error, with its status code as thrown, the correlation id of the
\* invocation, the request id and the function name of the platform context,
\* and the prefix of its classification replaced by the function name
ThrewServerlessError == pc = "idle" /\ handler.error = "ServerlessError"

C20_ServerlessErrorEnriched ==
    ThrewServerlessError =>
       /\ outcome.kind = "threw"
       /\ outcome.value.shape = "ServerlessError"
       /\ outcome.value.statusCode = 403
       /\ outcome.value.correlationId = "c-123"
       /\ outcome.value.awsRequestId = "1234"
       /\ outcome.value.functionName = "myHandlerFunction"
       /\ outcome.value.classification = [prefix |-> "myHandlerFunction", rest |-> "auth"]

\* a gateway event whose handler threw a ServerlessError
C20_Witness ==
    /\ ThrewServerlessError
    /\ event.kind = "gateway"
    /\ log[Len(log)].ev = "threw"

\* the wrapper has left its catch block
Cascaded == pc = "idle" /\ handler.error # "none"
\* ... and its catch block took the request for a gateway proxy request
ForGateway == Cascaded /\ outcome.isApiGatewayRequest
\* the error managements under which the cascade surfaces an error of its own
Surfacing == {"no-handling", "callback-falsy", "default", "handler-fn-throws",
              "default-error"}
SurfacedCode(mgmt) ==
    IF mgmt \in {"no-handling", "callback-falsy"} THEN ErrorCodes.expected
    ELSE ErrorCodes.default
ForwardFailed == \E i \in 1..Len(log) : log[i].ev = "forward-invoke" /\ ~log[i].ok

Unresolved == {"no-handling", "callback-falsy"}

C23_CallbackResolves ==
    (Cascaded /\ outcome.mgmt = "callback-truthy") =>
       /\ outcome.kind = "returned"
       /\ outcome.value.body = handler.result

ResolvedBy == {"callback-truthy", "forwardTo", "handler-fn-true", "handler-fn-truthy",
               "error-forwarding"}

C25_GatewayResponseReturned ==
    (/\ pc = "idle"
     /\ event.kind = "gateway"
     /\ outcome.isApiGatewayRequest
     /\ outcome.kind = "returned"
     /\ handler.error = "none" \/ outcome.mgmt \in ResolvedBy) =>
       /\ outcome.value.shape = "gateway"
       /\ (handler.error # "none" /\ handler.result = "undefined") =>
             /\ outcome.value.statusCode = 204
             /\ outcome.value.body = ""

ActivePolicy ==
    LET a == activeFn(sequence) IN
    IF a.err = NoErr /\ a.idx # 0 THEN a.seq.steps[a.idx].onError ELSE "none"
HandlerThrew == Cascaded /\ Len(Events("handler-threw")) = 1 /\ handler.error = "Error"

\* C28: when the handler throws and the active step carries an onError
\* policy, a policy that is a function is called with the error and a policy
\* that is an [arn, params] tuple makes the wrapper forward the error
C28_ConductorFinalSay ==
    HandlerThrew =>
       /\ ActivePolicy = "callback" => Len(Events("conductor-callback")) = 1
       /\ ActivePolicy = "forward" => Len(Events("conductor-invoke")) = 1

\* C29: when the handler threw, the error the wrapper throws, or the error
\* response it returns, carries the correlation id of the invocation
C29_CorrelationIdCarried ==
    (/\ Cascaded
     /\ Len(Events("handler-threw")) = 1
     /\ outcome.kind = "threw" \/ outcome.value.shape = "gateway-error") =>
       outcome.value.correlationId = HandlerContext.correlationId

\* C30: when the unboxing of a malformed event fails, the wrapper goes on
\* without a sequence and the handler is run
C30_MalformedTolerated ==
    (pc = "idle" /\ event.kind = "malformed") =>
       /\ Len(Events("handler-returned")) + Len(Events("handler-threw")) = 1
       /\ ~isSequence(sequence)

\* C31: a value thrown inside the cascade that is not a ServerlessError
\* leaves the wrapper, when the active step forwards no errors, as a
\* RethrowError with the type and the code of the thrown error when that is a
\* typed error (handled-error, unhandled-error, default-error), and as an
\* ErrorWithinError otherwise
CascadeThrew ==
    /\ Cascaded
    /\ outcome.kind = "threw"
    /\ handler.error # "ServerlessError"
    /\ ~forwardedByConductor(sequence)

TypeOf(mgmt) ==
    CASE mgmt \in Unresolved -> "handled-error"
      [] mgmt = "default-error" -> "default-error"
      [] OTHER -> "unhandled-error"

C31_WitnessWithin ==
    /\ CascadeThrew
    /\ outcome.mgmt = "error-forwarding"
    /\ outcome.value.shape = "ErrorWithinError"

\* C32: under the default policy handler-fn, when the handler function
\* returns a falsy value the default error is surfaced: the wrapper throws or
\* returns a gateway error response
C32_FalsySurfaces ==
    (Cascaded /\ outcome.mgmt = "handler-fn-falsy") =>
       \/ outcome.kind = "threw"
       \/ outcome.kind = "returned" /\ outcome.value.shape = "gateway-error"

\* C33: only finishStep, and next() through it, writes into the responses
\* map: after add, onCondition, onError, a read of activeFn, start,
\* ingestSteps and a hop (toObject, then deserialize) the map is the one the
\* sequence had before
WritesResponses == {"new", "finishStep", "next"}

Promoted(steps) ==
    IF WithStatus(steps, "active") = {} /\ WithStatus(steps, "assigned") # {}
    THEN [steps EXCEPT ![FirstWithStatus(steps, "assigned")].status = "active"]
    ELSE steps
ReadsActiveFn == {"activeFn", "start", "hop"}

C35_ActiveFnPromotesOnce ==
    (/\ last.op = "activeFn"
     /\ WithStatus(last.pre.steps, "active") = {}
     /\ WithStatus(last.pre.steps, "assigned") # {}) =>
       LET i == FirstWithStatus(last.pre.steps, "assigned") IN
       /\ last.err = NoErr
       /\ seq.steps = [last.pre.steps EXCEPT ![i].status = "active"]
       /\ activeFn(last.pre).idx = i
       /\ activeFn(seq) = [seq |-> seq, idx |-> i, err |-> NoErr]

\* the first step is completed, the second has been promoted by the read
C35_Witness ==
    /\ last.op = "activeFn"
    /\ Len(last.pre.steps) = 3
    /\ last.pre.steps[1].status = "completed"
    /\ last.pre.steps[2].status = "assigned"
    /\ seq.steps[2].status = "active"
    /\ seq.steps[3].status = "assigned"

\* C36: a sequence that start() sent off is carried step by step.  start()
\* of a sequence registered in this invocation invokes the first step and
\* leaves it active and the others assigned.  Each wrapped handler that
\* receives the envelope and succeeds finds the steps before its own
\* completed, its own active and the later ones assigned; when a later step
\* exists it completes its own, makes one continuation invoke, to the next
\* step in order, and leaves one assigned step fewer; the handler of the last
\* step makes no continuation invoke
InOrder(steps, k) ==
    \A j \in 1..Len(steps) :
       steps[j].status = (IF j < k THEN "completed"
                          ELSE IF j = k THEN "active" ELSE "assigned")
Succeeded == pc = "idle" /\ handler.error = "none" /\ outcome.kind = "returned"
ChainHop == Succeeded /\ event.kind = "orchestrated"
Started == Succeeded /\ handler.registered /\ Len(Events("new-sequence-invoke")) = 1

C36_ChainInOrder ==
    /\ Started =>
          /\ Events("new-sequence-invoke")[1].arn = newSequence.seq.steps[1].arn
          /\ InOrder(newSequence.seq.steps, 1)
    /\ ChainHop =>
          LET k == Len(completed(Unboxed)) + 1
              n == Len(Unboxed.steps)
          IN /\ k <= n
             /\ InOrder(Unboxed.steps, k)
             /\ IF k < n
                THEN /\ Len(Events("continuation-invoke")) = 1
                     /\ Events("continuation-invoke")[1].arn = Unboxed.steps[k + 1].arn
                     /\ InOrder(sequence.steps, k + 1)
                     /\ Len(remaining(sequence)) = Len(remaining(Unboxed)) - 1
                ELSE /\ Len(Events("continuation-invoke")) = 0
                     /\ sequence.steps = Unboxed.steps

\* the handler of the first step of a started two-step sequence has handed
\* over to the second step
C36_Witness ==
    /\ ChainHop
    /\ Len(Unboxed.steps) = 2
    /\ Unboxed.steps[1].status = "active"
    /\ Len(Events("continuation-invoke")) = 1
    /\ Events("continuation-invoke")[1].arn = "fnB"
    /\ sequence.steps[2].status = "active"

\* the handler of the last step has returned
C36_WitnessLast ==
    /\ ChainHop
    /\ Len(remaining(Unboxed)) = 0
    /\ Len(Events("continuation-invoke")) = 0

\* C37: a next() that fails because no assigned step remains leaves the
\* sequence as it was before the call
C37_FailedNextLeavesSequence ==
    (/\ last.op = "next"
     /\ last.err # NoErr
     /\ WithStatus(last.pre.steps, "assigned") = {}) =>
       seq = last.pre

\* C38: when the handler throws, the wrapper makes no continuation invoke
\* and starts no new sequence, and the sequence stays as it was unboxed: the
\* active step is still active and no response is recorded for it
ThrewInHandler == Cascaded /\ Len(Events("handler-threw")) = 1

C38_ThrowLeavesSequence ==
    ThrewInHandler =>
       /\ Len(Events("continuation-invoke")) = 0
       /\ Len(Events("new-sequence-invoke")) = 0
       /\ sequence = Unboxed

\* the handler of an active step with a step to follow threw, after it had
\* registered a new sequence
C38_Witness ==
    /\ ThrewInHandler
    /\ handler.registered
    /\ Len(remaining(sequence)) = 1
    /\ sequence.steps[1].status = "active"
    /\ sequence.responses = EmptyResponses

\* C39: the response of every completed step stays retrievable under its
\* ARN: a call that completes a step leaves the entries of the steps that
\* were completed before as they were
C39_ResponsesKept ==
    last.op \in {"finishStep", "next"} =>
       \A j \in WithStatus(last.pre.steps, "completed") :
          seq.responses[last.pre.steps[j].arn] =
             last.pre.responses[last.pre.steps[j].arn]

\* C40: ingestSteps gives new params to the step it makes active and leaves
\* the params of every other ingested step as they came in
C40_IngestTouchesActiveOnly ==
    (last.op = "ingestSteps" /\ last.err = NoErr /\ Len(last.pre.steps) = 0) =>
       \E input \in IngestInputs :
          /\ Len(input) = Len(seq.steps)
          /\ \A i \in 1..Len(input) :
                /\ seq.steps[i].arn = input[i].arn
                /\ seq.steps[i].status # "active" =>
                      seq.steps[i].params = input[i].params

====
